---- MODULE Spec2Model ----
(***************************************************************************)
(* A model of src/main.py: the sliding-window aggregation (granularity),   *)
(* the Nakamoto coefficient (compute_nakamoto_coefficient), the range      *)
(* search (find_nc_range) and the pass rate (binom_p).                     *)
(*                                                                         *)
(* Each function is a state machine of its own over its own variables:     *)
(*   SpecNC     compute_nakamoto_coefficient on one row                    *)
(*   SpecG      granularity on one table                                   *)
(*   SpecRange  compute_nakamoto_coefficients + find_nc_range, date by date*)
(*   FairRange  SpecRange with the interpreter's progress (weak fairness)  *)
(*   SpecBinom  compute_nakamoto_coefficients + binom_p                    *)
(* The variables of the functions a specification does not run keep their  *)
(* initial values.                                                         *)
(***************************************************************************)
EXTENDS Integers, Sequences, FiniteSets

VARIABLES
    \* compute_nakamoto_coefficient
    row,            \* the row (a Series of counts), as a list
    sorted_row,     \* row.sort_values(ascending=False)
    total_blocks,   \* sum(row)
    nc,             \* the coefficient being counted
    power_ratio,    \* the running share, an IEEE double
    pos,            \* how many entries of sorted_row the for loop has consumed
    npc,            \* "idle" | "start" | "loop" | "done"
    \* granularity
    blocks_df,      \* the input table: a list of [date, counts] records
    num,            \* the window size
    lister,         \* the rows in date order
    dates,          \* the dates in date order
    i,              \* the while loop's index
    result,         \* the combined rows so far
    window,         \* history: for each combined row, the 0-based indices summed
    gpc,            \* "idle" | "start" | "loop" | "done"
    \* find_nc_range
    date_row,       \* blocks_df.loc[date] of the date being searched
    date_total,     \* total_blocks of that date
    coeff,          \* nc_df['nc'].loc[date]
    coeffp,
    coeffq,
    successes,
    p,              \* the 'greater' p-value, as a count of outcomes out of 2^n
    q,              \* the 'less' p-value, as a count of outcomes out of 2^n
    nc_list,        \* nc_df['nc'] of the dates searched so far
    lower,
    upper,
    ndates,         \* len(blocks_df.index)
    rpc,            \* "idle" | "date" | "upper_test" | "upper_body" | "less_test"
                    \* | "lower_test" | "lower_body" | "append" | "done"
    \* binom_p
    btable,         \* the input table: a list of rows
    bi,             \* the for loop's index
    passes,
    total,
    bresult,        \* "none" | the double returned | "ZeroDivisionError"
    bpc             \* "idle" | "loop" | "divide" | "done"

ncvars == <<row, sorted_row, total_blocks, nc, power_ratio, pos, npc>>
gvars  == <<blocks_df, num, lister, dates, i, result, window, gpc>>
rvars  == <<date_row, date_total, coeff, coeffp, coeffq, successes, p, q,
            nc_list, lower, upper, ndates, rpc>>
bvars  == <<btable, bi, passes, total, bresult, bpc>>
vars   == <<ncvars, gvars, rvars, bvars>>

(***************************************************************************)
(* Bounds of the model.                                                    *)
(***************************************************************************)
NCEntities == 9     \* entities of a row given to compute_nakamoto_coefficient
NCMaxCount == 4     \* largest count in such a row
GMaxLen == 2        \* dates of a table given to granularity
GMaxCount == 1      \* largest count in such a table
GMaxNum == 3        \* largest window size
RMaxCount == 6      \* largest count in a row given to find_nc_range
RMaxDates == 2      \* dates of a table given to find_nc_range
RSlack == 1         \* candidate coefficients kept apart beyond the entity count
BMaxCount == 5      \* largest count in a table given to binom_p
BMaxDates == 2      \* dates of a table given to binom_p

(***************************************************************************)
(* Lists.                                                                  *)
(***************************************************************************)
RECURSIVE SumSeq(_)
SumSeq(s) == IF s = <<>> THEN 0 ELSE Head(s) + SumSeq(Tail(s))

\* s[1..n], all of s when n >= Len(s), nothing when n <= 0
Take(s, n) == SubSeq(s, 1, IF n > Len(s) THEN Len(s) ELSE n)

RECURSIVE InsertDesc(_, _)
InsertDesc(x, s) ==
    IF s = <<>> THEN <<x>>
    ELSE IF x >= Head(s) THEN <<x>> \o s
    ELSE <<Head(s)>> \o InsertDesc(x, Tail(s))

\* Series.sort_values(ascending=False), as the list of its values
RECURSIVE SortDesc(_)
SortDesc(s) == IF s = <<>> THEN <<>> ELSE InsertDesc(Head(s), SortDesc(Tail(s)))

\* Series.nlargest(n).sum(): the n largest values (all of them when n exceeds
\* the length, none when n <= 0), summed
NLargestSum(s, n) == SumSeq(Take(SortDesc(s), n))

(***************************************************************************)
(* IEEE 754 binary64 on the non-negative values the running share takes.   *)
(* A double is [e, hi, lo]: the 53-bit significand hi * 2^26 + lo, whose   *)
(* leading bit has weight 2^e; zero is hi = lo = 0.  Division and addition *)
(* round to nearest, ties to even.                                         *)
(***************************************************************************)
Two26 == 2^26
Two18 == 2^18

FZero == [e |-> 0, hi |-> 0, lo |-> 0]

FIsZero(x) == x.hi = 0 /\ x.lo = 0

RECURSIVE NormShift(_, _, _)
NormShift(b, t, s) == IF b * (2^s) >= t THEN s ELSE NormShift(b, t, s + 1)

FRoundUp(e, hi, lo) ==
    IF lo + 1 < Two26 THEN [e |-> e, hi |-> hi, lo |-> lo + 1]
    ELSE IF hi + 1 < 2 * Two26 THEN [e |-> e, hi |-> hi + 1, lo |-> 0]
    ELSE [e |-> e + 1, hi |-> Two26, lo |-> 0]

FRound(e, hi, lo, guard, sticky) ==
    IF guard = 1 /\ (sticky \/ lo % 2 = 1)
    THEN FRoundUp(e, hi, lo)
    ELSE [e |-> e, hi |-> hi, lo |-> lo]

\* b / t for integers 0 <= b <= t, 0 < t < 2^13: long division, 53 quotient
\* bits after the leading one (52 of the significand, one guard bit), the
\* remainder as the sticky bit
FDiv(b, t) ==
    IF b = 0 THEN FZero
    ELSE LET s  == NormShift(b, t, 0)
             r0 == b * (2^s) - t
             q1 == (r0 * Two18) \div t
             r1 == (r0 * Two18) % t
             q2 == (r1 * Two18) \div t
             r2 == (r1 * Two18) % t
             q3 == (r2 * (2^17)) \div t
             r3 == (r2 * (2^17)) % t
         IN FRound(-s,
                   Two26 + q1 * (2^8) + (q2 \div (2^10)),
                   (q2 % (2^10)) * (2^16) + (q3 \div 2),
                   q3 % 2,
                   r3 # 0)

RECURSIVE FShiftRight(_, _)
FShiftRight(m, s) ==
    IF s = 0 THEN m
    ELSE FShiftRight([hi |-> m.hi \div 2,
                      lo |-> (m.lo \div 2) + (m.hi % 2) * (2^25),
                      guard |-> m.lo % 2,
                      sticky |-> m.sticky \/ m.guard = 1], s - 1)

FLess(x, y) ==
    \/ x.e < y.e
    \/ x.e = y.e /\ (x.hi < y.hi \/ (x.hi = y.hi /\ x.lo < y.lo))

\* x + y for doubles 0 < y <= x
FAddOrdered(x, y) ==
    LET ys  == FShiftRight([hi |-> y.hi, lo |-> y.lo, guard |-> 0, sticky |-> FALSE],
                           x.e - y.e)
        lo0 == x.lo + ys.lo
        hi0 == x.hi + ys.hi + (lo0 \div Two26)
        m0  == [hi |-> hi0, lo |-> lo0 % Two26, guard |-> ys.guard, sticky |-> ys.sticky]
        m1  == IF hi0 >= 2 * Two26 THEN FShiftRight(m0, 1) ELSE m0
        e1  == IF hi0 >= 2 * Two26 THEN x.e + 1 ELSE x.e
    IN FRound(e1, m1.hi, m1.lo, m1.guard, m1.sticky)

FAdd(x, y) ==
    IF FIsZero(x) THEN y
    ELSE IF FIsZero(y) THEN x
    ELSE IF FLess(x, y) THEN FAddOrdered(y, x) ELSE FAddOrdered(x, y)

\* x > 0.5
FGreaterHalf(x) ==
    ~FIsZero(x) /\ (x.e > -1 \/ (x.e = -1 /\ (x.hi > Two26 \/ x.lo > 0)))

\* x * 100 for a double x: the 53-bit significand in limbs of 17, 18 and 18
\* bits, times 25 exactly (57 or 58 bits), then rounded back to 53 bits; the
\* remaining factor 4 adds 2 to the exponent
FTimes100(x) ==
    IF FIsZero(x) THEN FZero
    ELSE LET c25 == 25 * (x.lo % Two18)
             b25 == 25 * ((x.hi % (2^10)) * (2^8) + (x.lo \div Two18)) + (c25 \div Two18)
             A   == 25 * (x.hi \div (2^10)) + (b25 \div Two18)
             B   == b25 % Two18
             C   == c25 % Two18
             sh  == IF A >= 2^21 THEN 5 ELSE 4
         IN FRound(x.e + sh + 2,
                   A * (2^(10 - sh)) + (B \div (2^(8 + sh))),
                   (B % (2^(8 + sh))) * (2^(18 - sh)) + (C \div (2^sh)),
                   (C \div (2^(sh - 1))) % 2,
                   C % (2^(sh - 1)) # 0)

\* 100.0
FHundred == [e |-> 6, hi |-> 100 * (2^20), lo |-> 0]

(***************************************************************************)
(* compute_nakamoto_coefficient                                            *)
(***************************************************************************)
\* One pass of the for loop over the sorted row: [nc, power_ratio, brk] after
\* the body has run on blocks
NCBody(nc0, ratio0, blocks, tot) ==
    LET ratio1 == FAdd(ratio0, FDiv(blocks, tot))
    IN [nc |-> nc0 + 1, power_ratio |-> ratio1, brk |-> FGreaterHalf(ratio1)]

RECURSIVE NCLoop(_, _, _, _)
NCLoop(rest, tot, nc0, ratio0) ==
    IF rest = <<>> THEN nc0
    ELSE LET st == NCBody(nc0, ratio0, Head(rest), tot)
         IN IF st.brk THEN st.nc ELSE NCLoop(Tail(rest), tot, st.nc, st.power_ratio)

compute_nakamoto_coefficient(r) ==
    IF SumSeq(r) > 0 THEN NCLoop(SortDesc(r), SumSeq(r), 0, FZero) ELSE 0

\* Rows of n counts in 0..m, one per multiset of counts: the coefficient reads
\* the row only through sort_values, and the ascending order is the one the
\* descending sort has to reverse entirely
AscendingRows(n, m) ==
    {r \in [1..n -> 0..m] : \A k \in 1..(n - 1) : r[k] <= r[k + 1]}

NCIdle ==
    /\ row = <<>>
    /\ sorted_row = <<>>
    /\ total_blocks = 0
    /\ nc = 0
    /\ power_ratio = FZero
    /\ pos = 0
    /\ npc = "idle"

\* lines 36-37
NCStart ==
    /\ npc = "start"
    /\ total_blocks' = SumSeq(row)
    /\ nc' = 0
    /\ power_ratio' = FZero
    /\ sorted_row' = SortDesc(row)
    /\ pos' = 0
    /\ npc' = IF SumSeq(row) > 0 THEN "loop" ELSE "done"
    /\ UNCHANGED row
    /\ UNCHANGED <<gvars, rvars, bvars>>

\* lines 39-43: one pass of the for loop
NCIter ==
    /\ npc = "loop"
    /\ pos < Len(sorted_row)
    /\ LET st == NCBody(nc, power_ratio, sorted_row[pos + 1], total_blocks)
       IN /\ nc' = st.nc
          /\ power_ratio' = st.power_ratio
          /\ pos' = pos + 1
          /\ npc' = IF st.brk \/ pos + 1 = Len(sorted_row) THEN "done" ELSE "loop"
    /\ UNCHANGED <<row, sorted_row, total_blocks>>
    /\ UNCHANGED <<gvars, rvars, bvars>>

(***************************************************************************)
(* granularity                                                             *)
(***************************************************************************)
GColumns == <<"e1", "e2">>

Permutations(n) == {f \in [1..n -> 1..n] : \A a, b \in 1..n : f[a] = f[b] => a = b}

\* Tables of n dates (the dates 1..n, in any row order) with counts in 0..m
GTablesOfLen(n, m) ==
    {[k \in 1..n |-> [date |-> order[k], counts |-> cells[k]]] :
        order \in Permutations(n),
        cells \in [1..n -> [1..Len(GColumns) -> 0..m]]}

GTables == UNION {GTablesOfLen(n, GMaxCount) : n \in 0..GMaxLen}

RECURSIVE InsertByDate(_, _)
InsertByDate(x, s) ==
    IF s = <<>> THEN <<x>>
    ELSE IF x.date <= Head(s).date THEN <<x>> \o s
    ELSE <<Head(s)>> \o InsertByDate(x, Tail(s))

\* sorted(daily.items()): the rows by date
RECURSIVE SortByDate(_)
SortByDate(s) == IF s = <<>> THEN <<>> ELSE InsertByDate(Head(s), SortByDate(Tail(s)))

\* a variant of WindowStep that rounds up
WindowStepCeil(n) == (n + 1) \div 2

\* line 22: step = num // 2
WindowStep(n) == n \div 2

\* a variant of SliceBound that does not count a negative bound from the end
SliceBoundClamped(k, n) == IF k < 0 THEN 0 ELSE IF k > n THEN n ELSE k

\* line 24: a slice bound as Python resolves it on a list of length n: a
\* negative bound counts from the end, and the result is clamped to 0..n
SliceBound(k, n) ==
    IF k < 0 THEN (IF k + n < 0 THEN 0 ELSE k + n)
    ELSE IF k > n THEN n ELSE k

\* The 0-based indices of s[start:stop], in order
SliceIndices(n, start, stop) ==
    LET a == SliceBound(start, n)
        b == SliceBound(stop, n)
    IN [k \in 1..(IF b > a THEN b - a ELSE 0) |-> a + k - 1]

RECURSIVE ColumnSum(_, _)
ColumnSum(rows, c) ==
    IF rows = <<>> THEN 0 ELSE Head(rows)[c] + ColumnSum(Tail(rows), c)

\* [sum(x) for x in zip(*rows)]: zip of no rows is empty
ZipSum(rows) ==
    IF rows = <<>> THEN <<>>
    ELSE [c \in 1..Len(rows[1]) |-> ColumnSum(rows, c)]

GIdle ==
    /\ blocks_df = <<>>
    /\ num = 0
    /\ lister = <<>>
    /\ dates = <<>>
    /\ i = 0
    /\ result = <<>>
    /\ window = <<>>
    /\ gpc = "idle"

\* lines 13-22
GStart ==
    /\ gpc = "start"
    /\ LET daily == SortByDate(blocks_df)
       IN /\ lister' = [k \in 1..Len(daily) |-> daily[k].counts]
          /\ dates' = [k \in 1..Len(daily) |-> daily[k].date]
    /\ i' = 0
    /\ result' = <<>>
    /\ window' = <<>>
    /\ gpc' = "loop"
    /\ UNCHANGED <<blocks_df, num>>
    /\ UNCHANGED <<ncvars, rvars, bvars>>

\* lines 23-26: one pass of the while loop
GIter ==
    /\ gpc = "loop"
    /\ i <= Len(lister) - 1
    /\ LET step == WindowStep(num)
           idx  == SliceIndices(Len(lister), i - step, i + (num - step))
       IN /\ result' = Append(result, ZipSum([k \in 1..Len(idx) |-> lister[idx[k] + 1]]))
          /\ window' = Append(window, idx)
    /\ i' = i + 1
    /\ UNCHANGED <<blocks_df, num, lister, dates, gpc>>
    /\ UNCHANGED <<ncvars, rvars, bvars>>

\* lines 23, 27-28: the loop ends; new_df is result indexed by dates
GReturn ==
    /\ gpc = "loop"
    /\ ~(i <= Len(lister) - 1)
    /\ gpc' = "done"
    /\ UNCHANGED <<blocks_df, num, lister, dates, i, result, window>>
    /\ UNCHANGED <<ncvars, rvars, bvars>>

(***************************************************************************)
(* scipy.stats.binomtest(k, n, p=0.5, alternative).pvalue, exactly: the    *)
(* p-value is cnt / 2^n, kept as the count cnt of outcomes.                *)
(***************************************************************************)
RColumns == <<"e1", "e2", "e3">>
BColumns == <<"e1", "e2">>

MaxTrials ==
    IF Len(RColumns) * RMaxCount > Len(BColumns) * BMaxCount
    THEN Len(RColumns) * RMaxCount
    ELSE Len(BColumns) * BMaxCount

RECURSIVE PascalRow(_)
PascalRow(n) ==
    IF n = 0 THEN <<1>>
    ELSE LET prev == PascalRow(n - 1)
         IN [k \in 1..(n + 1) |->
                (IF k > 1 THEN prev[k - 1] ELSE 0) + (IF k <= n THEN prev[k] ELSE 0)]

PascalTriangle == [n \in 0..MaxTrials |-> PascalRow(n)]

\* the number of outcomes of n fair trials with exactly k successes
Choose(n, k) == PascalTriangle[n][k + 1]

RECURSIVE SumChoose(_, _, _)
SumChoose(n, a, b) == IF a > b THEN 0 ELSE Choose(n, a) + SumChoose(n, a + 1, b)

\* alternative='greater': binom.sf(k - 1, n, p) = P(X >= k)
PGreater(k, n) == SumChoose(n, k, n)

\* alternative='less': binom.cdf(k, n, p) = P(X <= k)
PLess(k, n) == SumChoose(n, 0, k)

\* alpha = 0.05 = 1 / AlphaInverse
AlphaInverse == 20

\* a variant of AboveAlpha for alpha = 0.1
AboveTenth(cnt, n) == cnt > (2^n) \div 10

\* cnt / 2^n > alpha (no p-value equals alpha: 2^n is no multiple of 5)
AboveAlpha(cnt, n) == cnt > (2^n) \div AlphaInverse

\* cnt / 2^n < alpha
BelowAlpha(cnt, n) == cnt <= ((2^n) - 1) \div AlphaInverse

(***************************************************************************)
(* compute_nakamoto_coefficients + find_nc_range.  The dates are searched  *)
(* one after the other and no date reads another date's row, so a date's   *)
(* row is drawn when the for loop reaches it; its coefficient is the one   *)
(* compute_nakamoto_coefficients gives that row.                           *)
(***************************************************************************)
RRows == [1..Len(RColumns) -> 0..RMaxCount]

\* Candidates above the entity count all select every entity (nlargest), so
\* the model keeps them apart only up to CoeffCap; candidates below zero all
\* select none, and are kept apart down to -RSlack
CoeffCap == Len(RColumns) + RSlack

\* line 84: coeffp += 1
UpperCandidate(cp) == IF cp < CoeffCap THEN cp + 1 ELSE cp

\* a variant of StepBack that steps back twice
StepBackTwice(cp) == cp - 2

\* line 93: coeffp -= 1
StepBack(cp) == cp - 1

\* line 102: coeffq -= 1
LowerCandidate(cq) == IF cq > -RSlack THEN cq - 1 ELSE cq

\* a variant of StepForward that leaves the candidate where the loop ended
StepForwardNone(cq) == cq

\* line 111: coeffq += 1
StepForward(cq) == cq + 1

\* a variant of InitialLessTest that keeps alternative='greater'
InitialLessTestGreater(k, n) == PGreater(k, n)

\* lines 94-99: the first 'less' test, on the successes the upper search left
InitialLessTest(k, n) == PLess(k, n)

RIdle ==
    /\ date_row = <<>>
    /\ date_total = 0
    /\ coeff = 0
    /\ coeffp = 0
    /\ coeffq = 0
    /\ successes = 0
    /\ p = 0
    /\ q = 0
    /\ nc_list = <<>>
    /\ lower = <<>>
    /\ upper = <<>>
    /\ ndates = 0
    /\ rpc = "idle"

\* lines 69-82: the next date; its total, coefficient and first 'greater' test
RDate ==
    /\ rpc = "date"
    /\ Len(lower) < ndates
    /\ \E r \in RRows :
        LET tot == SumSeq(r)
            c   == compute_nakamoto_coefficient(r)
            s   == NLargestSum(r, c)
        IN /\ date_row' = r
           /\ date_total' = tot
           /\ coeff' = c
           /\ coeffp' = c
           /\ coeffq' = c
           /\ IF tot > 0
              THEN /\ successes' = s
                   /\ p' = PGreater(s, tot)
                   /\ rpc' = IF AboveAlpha(PGreater(s, tot), tot)
                             THEN "upper_test" ELSE "less_test"
              ELSE /\ rpc' = "append"
                   /\ UNCHANGED <<successes, p>>
    /\ UNCHANGED <<q, nc_list, lower, upper, ndates>>
    /\ UNCHANGED <<ncvars, gvars, bvars>>

\* line 83: while p > alpha; line 93 when the loop ends
RUpperTest ==
    /\ rpc = "upper_test"
    /\ IF AboveAlpha(p, date_total)
       THEN /\ rpc' = "upper_body"
            /\ UNCHANGED coeffp
       ELSE /\ coeffp' = StepBack(coeffp)
            /\ rpc' = "less_test"
    /\ UNCHANGED <<date_row, date_total, coeff, coeffq, successes, p, q,
                   nc_list, lower, upper, ndates>>
    /\ UNCHANGED <<ncvars, gvars, bvars>>

\* lines 84-92
RUpperBody ==
    /\ rpc = "upper_body"
    /\ coeffp' = UpperCandidate(coeffp)
    /\ successes' = NLargestSum(date_row, UpperCandidate(coeffp))
    /\ p' = PGreater(NLargestSum(date_row, UpperCandidate(coeffp)), date_total)
    /\ rpc' = "upper_test"
    /\ UNCHANGED <<date_row, date_total, coeff, coeffq, q, nc_list, lower, upper, ndates>>
    /\ UNCHANGED <<ncvars, gvars, bvars>>

\* lines 94-100
RLessTest ==
    /\ rpc = "less_test"
    /\ q' = InitialLessTest(successes, date_total)
    /\ rpc' = IF AboveAlpha(InitialLessTest(successes, date_total), date_total)
              THEN "lower_test" ELSE "append"
    /\ UNCHANGED <<date_row, date_total, coeff, coeffp, coeffq, successes, p,
                   nc_list, lower, upper, ndates>>
    /\ UNCHANGED <<ncvars, gvars, bvars>>

\* line 101: while q > alpha; line 111 when the loop ends
RLowerTest ==
    /\ rpc = "lower_test"
    /\ IF AboveAlpha(q, date_total)
       THEN /\ rpc' = "lower_body"
            /\ UNCHANGED coeffq
       ELSE /\ coeffq' = StepForward(coeffq)
            /\ rpc' = "append"
    /\ UNCHANGED <<date_row, date_total, coeff, coeffp, successes, p, q,
                   nc_list, lower, upper, ndates>>
    /\ UNCHANGED <<ncvars, gvars, bvars>>

\* lines 102-110
RLowerBody ==
    /\ rpc = "lower_body"
    /\ coeffq' = LowerCandidate(coeffq)
    /\ successes' = NLargestSum(date_row, LowerCandidate(coeffq))
    /\ q' = PLess(NLargestSum(date_row, LowerCandidate(coeffq)), date_total)
    /\ rpc' = "lower_test"
    /\ UNCHANGED <<date_row, date_total, coeff, coeffp, p, nc_list, lower, upper, ndates>>
    /\ UNCHANGED <<ncvars, gvars, bvars>>

\* lines 112-113.  The date's locals are dead from here on (the next date
\* assigns each of them before it reads it), and the model clears them
RAppend ==
    /\ rpc = "append"
    /\ lower' = Append(lower, coeffq)
    /\ upper' = Append(upper, coeffp)
    /\ nc_list' = Append(nc_list, coeff)
    /\ rpc' = "date"
    /\ date_row' = <<>>
    /\ date_total' = 0
    /\ coeff' = 0
    /\ coeffp' = 0
    /\ coeffq' = 0
    /\ successes' = 0
    /\ p' = 0
    /\ q' = 0
    /\ UNCHANGED ndates
    /\ UNCHANGED <<ncvars, gvars, bvars>>

\* lines 69, 114-115: no date is left; the result is (lower, upper)
RReturn ==
    /\ rpc = "date"
    /\ Len(lower) = ndates
    /\ rpc' = "done"
    /\ UNCHANGED <<date_row, date_total, coeff, coeffp, coeffq, successes, p, q,
                   nc_list, lower, upper, ndates>>
    /\ UNCHANGED <<ncvars, gvars, bvars>>

(***************************************************************************)
(* compute_nakamoto_coefficients + binom_p                                 *)
(***************************************************************************)
BRows == [1..Len(BColumns) -> 0..BMaxCount]

BTables == UNION {[1..n -> BRows] : n \in 0..BMaxDates}

\* a variant of CountsDate that counts every date
CountsDateAlways(n) == TRUE

\* line 131: if num != 0
CountsDate(n) == n # 0

BIdle ==
    /\ btable = <<>>
    /\ bi = 0
    /\ passes = 0
    /\ total = 0
    /\ bresult = "none"
    /\ bpc = "idle"

\* lines 129-138: one pass of the for loop
BIter ==
    /\ bpc = "loop"
    /\ bi < Len(btable)
    /\ LET r == btable[bi + 1]
           n == SumSeq(r)
           c == compute_nakamoto_coefficient(r)
           s == NLargestSum(r, c)
       IN IF CountsDate(n)
          THEN /\ total' = total + 1
               /\ passes' = IF BelowAlpha(PGreater(s, n), n) THEN passes + 1 ELSE passes
          ELSE UNCHANGED <<total, passes>>
    /\ bi' = bi + 1
    /\ UNCHANGED <<btable, bresult, bpc>>
    /\ UNCHANGED <<ncvars, gvars, rvars>>

\* lines 129, 139-140: result = (passes / total) * 100 in doubles; the
\* division raises when total is 0
BDivide ==
    /\ bpc = "loop"
    /\ bi = Len(btable)
    /\ bresult' = IF total = 0 THEN "ZeroDivisionError"
                  ELSE FTimes100(FDiv(passes, total))
    /\ bpc' = "done"
    /\ UNCHANGED <<btable, bi, passes, total>>
    /\ UNCHANGED <<ncvars, gvars, rvars>>

(***************************************************************************)
(* The specifications.                                                     *)
(***************************************************************************)
InitNC ==
    /\ row \in AscendingRows(NCEntities, NCMaxCount)
    /\ sorted_row = <<>>
    /\ total_blocks = 0
    /\ nc = 0
    /\ power_ratio = FZero
    /\ pos = 0
    /\ npc = "start"
    /\ GIdle /\ RIdle /\ BIdle

NextNC == NCStart \/ NCIter

SpecNC == InitNC /\ [][NextNC]_vars

InitG ==
    /\ blocks_df \in GTables
    /\ num \in 1..GMaxNum
    /\ lister = <<>>
    /\ dates = <<>>
    /\ i = 0
    /\ result = <<>>
    /\ window = <<>>
    /\ gpc = "start"
    /\ NCIdle /\ RIdle /\ BIdle

NextG == GStart \/ GIter \/ GReturn

SpecG == InitG /\ [][NextG]_vars

InitR ==
    /\ date_row = <<>>
    /\ date_total = 0
    /\ coeff = 0
    /\ coeffp = 0
    /\ coeffq = 0
    /\ successes = 0
    /\ p = 0
    /\ q = 0
    /\ nc_list = <<>>
    /\ lower = <<>>
    /\ upper = <<>>
    /\ ndates \in 0..RMaxDates
    /\ rpc = "date"
    /\ NCIdle /\ GIdle /\ BIdle

NextR ==
    \/ RDate
    \/ RUpperTest
    \/ RUpperBody
    \/ RLessTest
    \/ RLowerTest
    \/ RLowerBody
    \/ RAppend
    \/ RReturn

SpecRange == InitR /\ [][NextR]_vars

\* The interpreter runs the next statement: a call that can step does step
FairRange == SpecRange /\ WF_vars(NextR)

InitB ==
    /\ btable \in BTables
    /\ bi = 0
    /\ passes = 0
    /\ total = 0
    /\ bresult = "none"
    /\ bpc = "loop"
    /\ NCIdle /\ GIdle /\ RIdle

NextB == BIter \/ BDivide

SpecBinom == InitB /\ [][NextB]_vars

(***************************************************************************)
(* Properties.                                                             *)
(***************************************************************************)
\* The sum of the k largest counts of row r
TopSum(r, k) == SumSeq(Take(SortDesc(r), k))

\* A date of find_nc_range has been searched and is about to be appended
Searched == rpc = "append"

\* The range search of a date is under way
Searching == rpc \in {"upper_test", "upper_body", "less_test", "lower_test", "lower_body"}

\* The first 'greater' test of the date, on the top-coefficient counts, has
\* p-value <= alpha
WellDetermined ==
    AlphaInverse * PGreater(TopSum(date_row, coeff), date_total) <= 2^date_total

\* The 'less' test on the top-k counts of the date has p-value <= alpha
LessRejects(k) ==
    AlphaInverse * PLess(TopSum(date_row, k), date_total) <= 2^date_total

\* C1: for every date for which find_nc_range produces a pair, with the
\* coefficient of compute_nakamoto_coefficients and alpha = 0.05,
\* lower <= coefficient <= upper.
C1_RangeContainsCoefficient ==
    /\ \A k \in 1..Len(lower) : lower[k] <= nc_list[k] /\ nc_list[k] <= upper[k]
    /\ Searched => coeffq <= coeff /\ coeff <= coeffp

C1_Witness ==
    /\ rpc = "done"
    /\ Len(lower) = 2
    /\ lower[1] < nc_list[1]
    /\ nc_list[2] < upper[2]

\* C2: the range search terminates: for every table both loops end for every
\* date, so find_nc_range eventually returns.
C2_Terminates == <>(rpc = "done")

\* The exact coefficient: 0 when the total is 0, otherwise the least
\* k >= 1 with 2 * (sum of the k largest counts) > total
ExactNakamoto(r) ==
    IF SumSeq(r) = 0 THEN 0
    ELSE CHOOSE k \in 1..Len(r) :
            /\ 2 * TopSum(r, k) > SumSeq(r)
            /\ \A j \in 1..(k - 1) : ~(2 * TopSum(r, j) > SumSeq(r))

\* C3: compute_nakamoto_coefficient returns 0 when the row total is 0 and
\* otherwise the least k >= 1 such that the k largest counts sum to strictly
\* more than half the total; so the coefficient is 0 iff the total is 0.
C3_LeastMajority ==
    npc = "done" =>
        /\ nc = ExactNakamoto(row)
        /\ (nc = 0 <=> SumSeq(row) = 0)

\* C4: when every date has total 0 (the empty table included), binom_p signals
\* an 'undefined' result instead of raising a division by zero.
C4_UndefinedSignalled ==
    (bpc = "done" /\ \A k \in 1..Len(btable) : SumSeq(btable[k]) = 0)
        => bresult = "undefined"

NonzeroDates == {k \in 1..Len(btable) : SumSeq(btable[k]) # 0}

PassDates ==
    {k \in NonzeroDates :
        LET r == btable[k]
        IN AlphaInverse * PGreater(TopSum(r, compute_nakamoto_coefficient(r)), SumSeq(r))
               < 2^SumSeq(r)}

\* x <= y for doubles
FAtMost(x, y) == FIsZero(x) \/ (~FIsZero(y) /\ ~FLess(y, x))

\* C5: with at least one date of nonzero total, binom_p returns
\* 100 * passes / D (the double (passes / D) * 100), D the number of dates of
\* nonzero total and passes the number of those whose 'greater' test has
\* p-value < alpha; zero-total dates change neither, and the result lies in
\* [0, 100].
C5_PassRate ==
    (bpc = "done" /\ NonzeroDates # {}) =>
        /\ passes = Cardinality(PassDates)
        /\ total = Cardinality(NonzeroDates)
        /\ bresult = FTimes100(FDiv(Cardinality(PassDates), Cardinality(NonzeroDates)))
        /\ FAtMost(FZero, bresult)
        /\ FAtMost(bresult, FHundred)
        /\ bresult = FHundred <=> Cardinality(PassDates) = Cardinality(NonzeroDates)
        /\ FIsZero(bresult) <=> PassDates = {}

C5_Witness ==
    /\ bpc = "done"
    /\ Len(btable) = 2
    /\ Cardinality(NonzeroDates) = 1
    /\ bresult = FHundred

DatesIncreasing(t) == \A k \in 1..(Len(t) - 1) : t[k].date < t[k + 1].date

\* C6: granularity with num = 1 on a table whose dates are in increasing
\* order returns the input: same dates in the same order, same columns, same
\* cell values.
C6_WindowOneIsIdentity ==
    (gpc = "done" /\ num = 1 /\ DatesIncreasing(blocks_df)) =>
        /\ dates = [k \in 1..Len(blocks_df) |-> blocks_df[k].date]
        /\ result = [k \in 1..Len(blocks_df) |-> blocks_df[k].counts]
        /\ \A k \in 1..Len(result) : Len(result[k]) = Len(GColumns)

C6_Witness ==
    /\ gpc = "done"
    /\ num = 1
    /\ Len(blocks_df) = 2
    /\ DatesIncreasing(blocks_df)
    /\ blocks_df[1].counts # blocks_df[2].counts
    /\ result = <<blocks_df[1].counts, blocks_df[2].counts>>

\* Output row k (1-based) is an early row: its i - step is negative
EarlyRow(k) == num >= 2 /\ (k - 1) - (num \div 2) < 0

\* The 0-based index Len + (i - step) of output row k
WrappedIndex(k) == Len(lister) + ((k - 1) - (num \div 2))

Contributes(j, k) == \E m \in 1..Len(window[k]) : window[k][m] = j

\* C7 as stated: for every table and every num >= 2, each early output row
\* i < step includes the row at index L + (i - step), counted from the end.
C7_EarlyRowsWrapAround ==
    \A k \in 1..Len(window) : EarlyRow(k) => Contributes(WrappedIndex(k), k)

\* C7 amended: the start of an early row's slice resolves to L + (i - step)
\* (to 0 when that is negative) and its end, i + (num - step), is not
\* wrapped; so the row at index L + (i - step) contributes exactly when that
\* index is not negative and L < num, and the window is empty when L >= num.
C7_EarlyRowsSlice ==
    \A k \in 1..Len(window) : EarlyRow(k) =>
        LET L     == Len(lister)
            first == IF WrappedIndex(k) < 0 THEN 0 ELSE WrappedIndex(k)
            stop  == IF (k - 1) + (num - num \div 2) > L THEN L
                     ELSE (k - 1) + (num - num \div 2)
        IN /\ \A j \in 0..(L - 1) : Contributes(j, k) <=> (first <= j /\ j < stop)
           /\ Contributes(WrappedIndex(k), k) <=> (WrappedIndex(k) >= 0 /\ L < num)
           /\ L >= num => window[k] = <<>>

C7_Witness ==
    /\ gpc = "done"
    /\ Len(lister) = 2
    /\ num = 3
    /\ window[1] = <<1>>

\* C8 as stated: for a date with total > 0 whose first 'greater' test has
\* p-value <= alpha, find_nc_range returns lower = upper = coefficient.
C8_RangeCollapses ==
    (Searched /\ date_total > 0 /\ WellDetermined) =>
        coeffq = coeff /\ coeffp = coeff

\* The row has one entity with a nonzero count
Monopoly(r) == Cardinality({k \in 1..Len(r) : r[k] # 0}) = 1

\* C8 amended: for such a date upper = coefficient and lower <= coefficient,
\* with lower = coefficient exactly when the 'less' test on the sum of the
\* top (coefficient - 1) counts has p-value <= alpha; a monopoly row gives
\* (1, 1).
C8_UpperCollapses ==
    (Searched /\ date_total > 0 /\ WellDetermined) =>
        /\ coeffp = coeff
        /\ coeffq <= coeff
        /\ coeffq = coeff <=> LessRejects(coeff - 1)
        /\ Monopoly(date_row) => coeffq = 1 /\ coeffp = 1

C8_Witness ==
    /\ Searched
    /\ date_total > 0
    /\ WellDetermined
    /\ Monopoly(date_row)
    /\ coeffq = 1
    /\ coeffp = 1

\* The 'less' search of the specification: decrease the candidate while the
\* p-value exceeds alpha, then step forward by one
RECURSIVE LessSearch(_)
LessSearch(cq) == IF LessRejects(cq) THEN cq + 1 ELSE LessSearch(cq - 1)

\* ... with its first test on the point estimate's successes
LowerFromPointEstimate == IF LessRejects(coeff) THEN coeff ELSE LessSearch(coeff - 1)

\* C9: for every date with total > 0 on which the search completes, the
\* lower bound equals the one of the 'less' search whose first test is on the
\* sum of the top-coefficient counts, whether or not the upper loop ran first
\* and overwrote the successes.
C9_LowerFromPointEstimate ==
    (Searched /\ date_total > 0) => coeffq = LowerFromPointEstimate

C9_Witness ==
    /\ Searched
    /\ date_total > 0
    /\ coeffp > coeff
    /\ successes # TopSum(date_row, coeff)

\* In every state: a search that has ended had total 0 or >= 5; a search with
\* a total in 1..4 is in the upper loop with a p-value above alpha; a search
\* that has ended with total > 0 has 1 <= lower and upper <= number of entities
C10_Safety ==
    /\ Searched => date_total = 0 \/ date_total >= 5
    /\ (Searching /\ date_total \in 1..4) =>
          /\ rpc \in {"upper_test", "upper_body"}
          /\ AlphaInverse * p > 2^date_total
    /\ (Searched /\ date_total > 0) => 1 <= coeffq /\ coeffp <= Len(RColumns)

\* C10: the range search of a date terminates iff the date's total is 0 or at
\* least 5: with a total in 1..4 every 'greater' p-value exceeds alpha and the
\* upper loop never ends, with a total of at least 5 the search ends; and a
\* search that ends with total > 0 gives 1 <= lower and upper <= number of
\* entities.
C10_TerminatesIffTotal ==
    /\ []C10_Safety
    /\ (Searching /\ date_total >= 5) ~> Searched

C10_Witness ==
    /\ Searched
    /\ date_total >= 5
    /\ 1 <= coeffq
    /\ coeff < coeffp
    /\ coeffp <= Len(RColumns)

====
